---------------------------- MODULE Spec2Model ----------------------------
(***************************************************************************)
(* Model of fraud_analysis.py: load_data (the feature derivation done with *)
(* pandas before the rows are written to the SQLite table "transactions"), *)
(* the eleven aggregation queries plus fraud_overview, and main, which     *)
(* runs them in a fixed order on one connection.                           *)
(*                                                                         *)
(* Conventions of the model                                                *)
(*  - identifiers (cc_num, merchant, category, state, gender) are small    *)
(*    integers; amounts are whole dollars; a timestamp is a day number     *)
(*    counted from 2019-01-01 plus an hour; dob is a day number on the     *)
(*    same scale.                                                          *)
(*  - percentages and rounded amounts are kept in hundredths (ROUND(x, 2)  *)
(*    is an integer number of hundredths, half rounded away from zero).    *)
(*  - a nullable SQL number is the record Null or Val(x).                  *)
(*  - SQL leaves the order of rows that tie on the ORDER BY key            *)
(*    unspecified; SQLite returns them in one fixed order. The variable    *)
(*    tie fixes that order for a whole run ("asc" or "desc" on the group   *)
(*    key) and is chosen arbitrarily in Init.                              *)
(***************************************************************************)
EXTENDS Integers, Sequences, FiniteSets, TLC

VARIABLES csv,           \* the input file: [columns, rows]
          tie,           \* the engine's fixed order among ORDER BY ties
          conn,          \* "none" | "open" | "closed"
          transactions,  \* the SQLite table: [columns, rows]
          pc,            \* the next step of the caller
          results,       \* report name -> the rows it returned last
          ran,           \* the reports that have returned
          n_state,       \* the limit of the last fraud_by_state call
          calls,         \* the number of direct calls made so far
          error          \* "none", or the function in which the run aborted

vars == <<csv, tie, conn, transactions, pc, results, ran, n_state, calls, error>>

----------------------------------------------------------------------------
(* Values *)

NULL == "NULL"
Null == [isnull |-> TRUE, v |-> 0]
Val(x) == [isnull |-> FALSE, v |-> x]

\* float("inf") as a bin edge: a sentinel that every value is below.
Inf == -1

Min(a, b) == IF a <= b THEN a ELSE b

\* Integer division truncating toward zero, like astype(int) on a float.
TruncDiv(a, b) == IF a >= 0 THEN a \div b ELSE -((-a) \div b)

\* num / den rounded to the nearest integer, half away from zero (den > 0)
RoundDiv(num, den) ==
    IF num >= 0 THEN (2 * num + den) \div (2 * den)
    ELSE -((2 * (-num) + den) \div (2 * den))

----------------------------------------------------------------------------
(* Calendar: day 0 is 2019-01-01, a Tuesday. *)

IsLeap(y) == (y % 4 = 0 /\ y % 100 /= 0) \/ y % 400 = 0

DaysInMonth(y, m) ==
    IF m = 2 THEN (IF IsLeap(y) THEN 29 ELSE 28)
    ELSE IF m \in {4, 6, 9, 11} THEN 30 ELSE 31

RECURSIVE YearMonth(_, _, _)
\* The <<year, month>> of day d counted from the first day of month m of year y.
YearMonth(d, y, m) ==
    IF d < DaysInMonth(y, m) THEN <<y, m>>
    ELSE IF m = 12 THEN YearMonth(d - DaysInMonth(y, m), y + 1, 1)
    ELSE YearMonth(d - DaysInMonth(y, m), y, m + 1)

\* .dt.hour
txn_hour(ts) == ts.hour

\* .dt.dayofweek, 0 = Monday
txn_day_of_week(ts) == (ts.day + 1) % 7

\* .dt.to_period("M").astype(str): "YYYY-MM", kept as <<YYYY, MM>>, whose
\* lexicographic order is that of the zero-padded string.
txn_month(ts) == YearMonth(ts.day, 2019, 1)

----------------------------------------------------------------------------
(* pandas.cut with its defaults right=True, include_lowest=False *)

AgeBins     == <<0, 25, 35, 45, 55, 65, 120>>
AgeLabels   == <<"18-24", "25-34", "35-44", "45-54", "55-64", "65+">>
AmountBins   == <<0, 100, 500, 1000, Inf>>
AmountLabels == <<"0-100", "100-500", "500-1000", "1000+">>
CityBins    == <<0, 10000, 100000, 500000, Inf>>
CityLabels  == <<"Rural (<10K)", "Small (10K-100K)", "Mid (100K-500K)", "Large (500K+)">>

\* x <= edge, where the edge may be float("inf")
LeEdge(x, edge) == edge = Inf \/ x <= edge

\* x falls in bin i of bins: the interval (bins[i], bins[i+1]]
InBin(x, bins, i) == bins[i] < x /\ LeEdge(x, bins[i + 1])

cut(x, bins, labels) ==
    IF \E i \in 1..Len(labels) : InBin(x, bins, i)
    THEN labels[CHOOSE i \in 1..Len(labels) : InBin(x, bins, i)]
    ELSE NULL

\* ((trans_date_trans_time - dob).dt.days / 365.25).astype(int)
age_of(r) == TruncDiv(4 * (r.trans_date_trans_time.day - r.dob), 1461)

----------------------------------------------------------------------------
(* 1. load_data *)

RawColumns == {"trans_date_trans_time", "cc_num", "merchant", "category", "amt",
               "is_fraud", "state", "gender", "city_pop", "dob"}

DerivedColumns == {"txn_hour", "txn_day_of_week", "txn_month", "age",
                   "age_group", "amount_bucket", "city_size"}

\* The columns load_data itself reads: parse_dates, df["dob"], df["amt"],
\* df["city_pop"]. A missing one raises inside load_data.
LoadColumns == {"trans_date_trans_time", "dob", "amt", "city_pop"}

\* One row of the frame after the derived columns are added.
Enrich(r) ==
    LET age == age_of(r)
    IN  r @@ [txn_hour        |-> txn_hour(r.trans_date_trans_time),
              txn_day_of_week |-> txn_day_of_week(r.trans_date_trans_time),
              txn_month       |-> txn_month(r.trans_date_trans_time),
              age             |-> age,
              age_group       |-> cut(age, AgeBins, AgeLabels),
              amount_bucket   |-> cut(r.amt, AmountBins, AmountLabels),
              city_size       |-> cut(r.city_pop, CityBins, CityLabels)]

\* df.to_sql("transactions", conn, if_exists="replace"): every row, in order.
to_sql(f) ==
    [columns |-> f.columns \cup DerivedColumns,
     rows    |-> [i \in 1..Len(f.rows) |-> Enrich(f.rows[i])]]

NoTable == [columns |-> {}, rows |-> <<>>]

----------------------------------------------------------------------------
(* 2. The queries *)

\* GROUP BY: one group per distinct key among the rows W (indices) of T.
GroupBy(T, W, col) ==
    { [key |-> k, idx |-> {i \in W : T.rows[i][col] = k}] :
        k \in {T.rows[i][col] : i \in W} }

Count(I) == Cardinality(I)
\* SUM(is_fraud)
SumFraud(T, I) == Cardinality({i \in I : T.rows[i].is_fraud = 1})
RECURSIVE SumRange(_, _, _, _)
\* The sum of amt over the rows of I between lo and hi, by halving the range.
SumRange(T, I, lo, hi) ==
    IF lo > hi THEN 0
    ELSE IF lo = hi THEN (IF lo \in I THEN T.rows[lo].amt ELSE 0)
    ELSE LET mid == (lo + hi) \div 2
         IN  SumRange(T, I, lo, mid) + SumRange(T, I, mid + 1, hi)

\* SUM(amt) over the rows I, in dollars
SumAmt(T, I) == SumRange(T, I, 1, Len(T.rows))
FraudIdx(T, I) == {i \in I : T.rows[i].is_fraud = 1}

\* ROUND(100.0 * SUM(is_fraud) / COUNT(*), 2), in hundredths of a percent
FraudRatePct(T, I) == RoundDiv(10000 * SumFraud(T, I), Count(I))

\* ROUND(SUM(CASE WHEN is_fraud = 1 THEN amt ELSE 0 END), 2), in cents
TotalFraudAmount(T, I) == 100 * SumAmt(T, FraudIdx(T, I))

\* ROUND(AVG(CASE WHEN is_fraud = 1 THEN amt END), 2), in cents; NULL when the
\* group has no fraud row
AvgFraudAmt(T, I) ==
    IF FraudIdx(T, I) = {} THEN Null
    ELSE Val(RoundDiv(100 * SumAmt(T, FraudIdx(T, I)), Count(FraudIdx(T, I))))

\* ORDER BY: the rows S as a sequence, by key[x] (descending when desc), rows
\* with equal keys in the engine's order tie on rank[x] (distinct per row).
OrderBy(S, key, rank, desc) ==
    LET Before(x, y) ==
            \/ (IF desc THEN key[x] > key[y] ELSE key[x] < key[y])
            \/ /\ key[x] = key[y]
               /\ IF tie = "asc" THEN rank[x] < rank[y] ELSE rank[x] > rank[y]
        pos == [x \in S |-> Cardinality({y \in S : Before(y, x)})]
    IN  [p \in 1..Cardinality(S) |-> CHOOSE x \in S : pos[x] = p - 1]

\* LIMIT n off by one: a row too many
Limit_off(s, n) == SubSeq(s, 1, Min(n + 1, Len(s)))

\* LIMIT n
Limit(s, n) == SubSeq(s, 1, Min(n, Len(s)))

\* The position of a bucket label in its label list; NULL sorts first.
LabelRank(l, labels) ==
    IF l = NULL THEN 0 ELSE CHOOSE i \in 1..Len(labels) : labels[i] = l

All(T) == 1..Len(T.rows)

\* The columns a query names; one missing from the table is SQLite's
\* OperationalError "no such column".
QueryColumns(name) ==
    CASE name = "fraud_overview"         -> {"is_fraud", "amt"}
      [] name = "fraud_by_category"      -> {"category", "is_fraud", "amt"}
      [] name = "fraud_by_hour"          -> {"txn_hour", "is_fraud"}
      [] name = "fraud_by_day_of_week"   -> {"txn_day_of_week", "is_fraud"}
      [] name = "fraud_by_amount_bucket" -> {"amount_bucket", "is_fraud"}
      [] name = "fraud_by_state"         -> {"state", "is_fraud"}
      [] name = "fraud_by_gender"        -> {"gender", "is_fraud"}
      [] name = "fraud_by_age_group"     -> {"age_group", "is_fraud"}
      [] name = "fraud_by_city_size"     -> {"city_size", "is_fraud"}
      [] name = "repeat_fraud_cards"     -> {"cc_num", "amt", "trans_date_trans_time", "is_fraud"}
      [] name = "high_risk_merchants"    -> {"merchant", "category", "is_fraud", "amt"}
      [] name = "fraud_trend_monthly"    -> {"txn_month", "is_fraud"}

\* The row of the un-grouped SELECT of fraud_overview: always one row; the
\* aggregates other than COUNT(*) are NULL over no rows.
overview_row(T) ==
    LET I == All(T)
    IN  [total_txns         |-> Count(I),
         fraud_count        |-> IF I = {} THEN Null ELSE Val(SumFraud(T, I)),
         fraud_rate_pct     |-> IF I = {} THEN Null ELSE Val(FraudRatePct(T, I)),
         avg_amount         |-> IF I = {} THEN Null
                                ELSE Val(RoundDiv(100 * SumAmt(T, I), Count(I))),
         total_fraud_amount |-> IF I = {} THEN Null ELSE Val(TotalFraudAmount(T, I))]

\* int(result['fraud_count']) and the ",>11" format raise on None.
overview_prints(row) == ~row.fraud_count.isnull /\ ~row.total_fraud_amount.isnull

\* The four columns every grouped report shares.
Rates(T, g) ==
    [total_txns     |-> Count(g.idx),
     fraud_txns     |-> SumFraud(T, g.idx),
     fraud_rate_pct |-> FraudRatePct(T, g.idx)]

fraud_by_category(T) ==
    LET rows == { [category |-> g.key, avg_fraud_amt |-> AvgFraudAmt(T, g.idx)]
                    @@ Rates(T, g) : g \in GroupBy(T, All(T), "category") }
    IN  OrderBy(rows, [x \in rows |-> x.fraud_rate_pct],
                [x \in rows |-> x.category], TRUE)

fraud_by_hour(T) ==
    LET rows == { [txn_hour |-> g.key] @@ Rates(T, g) :
                    g \in GroupBy(T, All(T), "txn_hour") }
    IN  OrderBy(rows, [x \in rows |-> x.txn_hour], [x \in rows |-> x.txn_hour], FALSE)

fraud_by_day_of_week(T) ==
    LET rows == { [txn_day_of_week |-> g.key] @@ Rates(T, g) :
                    g \in GroupBy(T, All(T), "txn_day_of_week") }
    IN  OrderBy(rows, [x \in rows |-> x.txn_day_of_week],
                [x \in rows |-> x.txn_day_of_week], FALSE)

fraud_by_amount_bucket(T) ==
    LET rows == { [amount_bucket |-> g.key] @@ Rates(T, g) :
                    g \in GroupBy(T, All(T), "amount_bucket") }
    IN  OrderBy(rows, [x \in rows |-> x.fraud_rate_pct],
                [x \in rows |-> LabelRank(x.amount_bucket, AmountLabels)], TRUE)

fraud_by_state(T, n) ==
    LET rows == { [state |-> g.key] @@ Rates(T, g) : g \in GroupBy(T, All(T), "state") }
    IN  Limit(OrderBy(rows, [x \in rows |-> x.fraud_txns],
                      [x \in rows |-> x.state], TRUE), n)

\* No ORDER BY: the groups come in the engine's order.
fraud_by_gender(T) ==
    LET rows == { [gender |-> g.key] @@ Rates(T, g) : g \in GroupBy(T, All(T), "gender") }
    IN  OrderBy(rows, [x \in rows |-> 0], [x \in rows |-> x.gender], FALSE)

fraud_by_age_group(T) ==
    LET W == {i \in All(T) : T.rows[i].age_group /= NULL}
        rows == { [age_group |-> g.key] @@ Rates(T, g) : g \in GroupBy(T, W, "age_group") }
    IN  OrderBy(rows, [x \in rows |-> x.fraud_rate_pct],
                [x \in rows |-> LabelRank(x.age_group, AgeLabels)], TRUE)

fraud_by_city_size(T) ==
    LET W == {i \in All(T) : T.rows[i].city_size /= NULL}
        rows == { [city_size |-> g.key] @@ Rates(T, g) : g \in GroupBy(T, W, "city_size") }
    IN  OrderBy(rows, [x \in rows |-> x.fraud_rate_pct],
                [x \in rows |-> LabelRank(x.city_size, CityLabels)], TRUE)

\* A timestamp as hours, to compare two of them (MIN, MAX)
Hours(ts) == 24 * ts.day + ts.hour

MinFraudCount == 3
TopCards == 20

\* HAVING COUNT(*) >= 3, over the fraud rows I of one card
repeat_having(T, I) == Count(I) >= MinFraudCount

repeat_fraud_cards(T) ==
    LET W == FraudIdx(T, All(T))
        Times(g) == {T.rows[i].trans_date_trans_time : i \in g.idx}
        rows == { [cc_num             |-> g.key,
                   fraud_count        |-> Count(g.idx),
                   total_fraud_amount |-> 100 * SumAmt(T, g.idx),
                   first_fraud |-> CHOOSE t \in Times(g) :
                                     \A u \in Times(g) : Hours(t) <= Hours(u),
                   last_fraud  |-> CHOOSE t \in Times(g) :
                                     \A u \in Times(g) : Hours(t) >= Hours(u)] :
                    g \in {h \in GroupBy(T, W, "cc_num") : repeat_having(T, h.idx)} }
    IN  Limit(OrderBy(rows, [x \in rows |-> x.fraud_count],
                      [x \in rows |-> x.cc_num], TRUE), TopCards)

MinMerchantTxns == 20
MinMerchantFraud == 3
\* LIMIT 19 for LIMIT 20
TopMerchants_short == 20 - 1

TopMerchants == 20

\* The HAVING clause with OR for AND
merchant_having_or(T, I) ==
    Count(I) >= MinMerchantTxns \/ SumFraud(T, I) >= MinMerchantFraud

\* HAVING COUNT(*) >= 20 AND SUM(is_fraud) >= 3, over the rows I of one group
merchant_having(T, I) ==
    Count(I) >= MinMerchantTxns /\ SumFraud(T, I) >= MinMerchantFraud

\* GROUP BY merchant, category
GroupByMerchant(T) ==
    { [key |-> k, idx |-> {i \in All(T) : <<T.rows[i].merchant, T.rows[i].category>> = k}] :
        k \in {<<T.rows[i].merchant, T.rows[i].category>> : i \in All(T)} }

high_risk_merchants(T) ==
    LET rows == { [merchant |-> g.key[1], category |-> g.key[2],
                   total_fraud_amount |-> TotalFraudAmount(T, g.idx)] @@ Rates(T, g) :
                    g \in {h \in GroupByMerchant(T) : merchant_having(T, h.idx)} }
    IN  Limit(OrderBy(rows, [x \in rows |-> x.fraud_rate_pct],
                      [x \in rows |-> 1000 * x.merchant + x.category], TRUE),
              TopMerchants)

fraud_trend_monthly(T) ==
    LET rows == { [txn_month |-> g.key] @@ Rates(T, g) :
                    g \in GroupBy(T, All(T), "txn_month") }
        month == [x \in rows |-> 12 * x.txn_month[1] + x.txn_month[2]]
    IN  OrderBy(rows, month, month, FALSE)

----------------------------------------------------------------------------
(* 3. The reports as run_query runs them *)

DefaultTopStates == 15

MainOrder == <<"fraud_overview", "fraud_by_category", "fraud_by_hour",
               "fraud_by_day_of_week", "fraud_by_amount_bucket", "fraud_by_state",
               "fraud_by_gender", "fraud_by_age_group", "fraud_by_city_size",
               "repeat_fraud_cards", "high_risk_merchants", "fraud_trend_monthly">>

Reports == {MainOrder[i] : i \in 1..Len(MainOrder)}

\* pd.read_sql(sql, conn): the rows the query returns.
run_query(name, T, n) ==
    CASE name = "fraud_overview"         -> <<overview_row(T)>>
      [] name = "fraud_by_category"      -> fraud_by_category(T)
      [] name = "fraud_by_hour"          -> fraud_by_hour(T)
      [] name = "fraud_by_day_of_week"   -> fraud_by_day_of_week(T)
      [] name = "fraud_by_amount_bucket" -> fraud_by_amount_bucket(T)
      [] name = "fraud_by_state"         -> fraud_by_state(T, n)
      [] name = "fraud_by_gender"        -> fraud_by_gender(T)
      [] name = "fraud_by_age_group"     -> fraud_by_age_group(T)
      [] name = "fraud_by_city_size"     -> fraud_by_city_size(T)
      [] name = "repeat_fraud_cards"     -> repeat_fraud_cards(T)
      [] name = "high_risk_merchants"    -> high_risk_merchants(T)
      [] name = "fraud_trend_monthly"    -> fraud_trend_monthly(T)

\* The query raises: it names a column the table does not have.
QueryRaises(name, T) == ~(QueryColumns(name) \subseteq T.columns)

\* A report that deletes the rows it has counted as fraud
TableAfter_delete(name, T) ==
    [T EXCEPT !.rows = SelectSeq(T.rows, LAMBDA r : r.is_fraud = 0)]

\* What a report leaves of the table: nothing is written (SELECT only).
TableAfter(name, T) == T

\* The function returns normally.
Returns(name, T) ==
    /\ ~QueryRaises(name, T)
    /\ name = "fraud_overview" => overview_prints(overview_row(T))

\* One report called with limit n; the caller goes on at pc ok.
Call(name, n, ok) ==
    /\ conn = "open"
    /\ IF QueryRaises(name, transactions)
       THEN /\ error' = name
            /\ pc' = "crashed"
            /\ UNCHANGED <<results, ran, n_state, transactions>>
       ELSE /\ results' = [results EXCEPT ![name] = run_query(name, transactions, n)]
            /\ transactions' = TableAfter(name, transactions)
            /\ n_state' = IF name = "fraud_by_state" THEN n ELSE n_state
            /\ IF Returns(name, transactions)
               THEN ran' = ran \cup {name} /\ pc' = ok /\ error' = error
               ELSE ran' = ran /\ pc' = "crashed" /\ error' = name
    /\ UNCHANGED <<csv, tie, conn>>

----------------------------------------------------------------------------
(* 4. load_data and main *)

\* load_data raises: a column it reads itself is missing.
load_data_raises ==
    /\ pc = "load_data"
    /\ ~(LoadColumns \subseteq csv.columns)
    /\ pc' = "crashed"
    /\ error' = "load_data"
    /\ UNCHANGED <<csv, tie, conn, transactions, results, ran, n_state, calls>>

\* A file with a header and no rows: read_csv returns the parse_dates column
\* without converting it, and whether the .dt accessor of line 47 then raises
\* depends on the dtype the installed pandas gives an empty column.
load_data_empty_raises ==
    /\ pc = "load_data"
    /\ LoadColumns \subseteq csv.columns
    /\ csv.rows = <<>>
    /\ pc' = "crashed"
    /\ error' = "load_data"
    /\ UNCHANGED <<csv, tie, conn, transactions, results, ran, n_state, calls>>

load_data_returns(ok) ==
    /\ pc = "load_data"
    /\ LoadColumns \subseteq csv.columns
    /\ conn' = "open"
    /\ transactions' = to_sql(csv)
    /\ pc' = ok
    /\ UNCHANGED <<csv, tie, results, ran, n_state, calls, error>>

load_data(ok) ==
    \/ load_data_raises
    \/ load_data_empty_raises
    \/ load_data_returns(ok)

\* The step of main after the report at position i of MainOrder.
AfterReport(i) == IF i < Len(MainOrder) THEN MainOrder[i + 1] ELSE "visualize"

main_load == load_data(MainOrder[1])

main_report ==
    \E i \in 1..Len(MainOrder) :
        /\ pc = MainOrder[i]
        /\ Call(MainOrder[i], DefaultTopStates, AfterReport(i))
        /\ UNCHANGED calls

\* The plots and the CSV export: they read the frames already returned, and
\* plot_amount_distribution runs two more SELECTs.
main_visualize ==
    /\ pc = "visualize"
    /\ pc' = "close"
    /\ UNCHANGED <<csv, tie, conn, transactions, results, ran, n_state, calls, error>>

\* conn.close(): the in-memory database goes with the connection.
main_close ==
    /\ pc = "close"
    /\ conn' = "closed"
    /\ transactions' = NoTable
    /\ pc' = "done"
    /\ UNCHANGED <<csv, tie, results, ran, n_state, calls, error>>

----------------------------------------------------------------------------
(* 5. The report functions called directly, in any order *)

MaxLimit == 18
MaxCalls == 2

\* The limits tried for fraud_by_state(conn, n)
Limits == 0..MaxLimit

api_load == load_data("ready")

\* Any report, with its default arguments
api_report ==
    \E name \in Reports :
        /\ pc = "ready"
        /\ calls < MaxCalls
        /\ Call(name, DefaultTopStates, "ready")
        /\ calls' = calls + 1

\* fraud_by_state(conn, n), any number of times
api_fraud_by_state ==
    \E n \in Limits :
        /\ pc = "ready"
        /\ Call("fraud_by_state", n, "ready")
        /\ UNCHANGED calls

----------------------------------------------------------------------------
(* 6. The input files of the model *)

MaxCompanions == 1
MaxCards == 2
MaxStates == 17
MaxOthers == 21

Timestamp(d, h) == [day |-> d, hour |-> h]

\* A 27-year-old's 50-dollar legitimate purchase in a town of 5,000.
BaseRow ==
    [trans_date_trans_time |-> Timestamp(0, 0), cc_num |-> 1, merchant |-> 1,
     category |-> 1, amt |-> 50, is_fraud |-> 0, state |-> 1, gender |-> 1,
     city_pop |-> 5000, dob |-> -10000]

File(rows) == [columns |-> RawColumns, rows |-> rows]

SeqsUpTo(S, n) == UNION {[1..k -> S] : k \in 0..n}

\* The finite edges of a bin list, and the values on and next to them.
Edges(bins) == {bins[i] : i \in 1..Len(bins)} \ {Inf}
Around(bins) == {e + d : e \in Edges(bins), d \in {-1, 0, 1}}

\* The first day on which the age computed by load_data is a.
DaysForAge(a) ==
    IF a >= 0 THEN (1461 * a + 3) \div 4 ELSE -((1461 * (-a) + 3) \div 4)

TestAges == Around(AgeBins) \cup {17, 18}
\* The first and the last day of each tested age
TestDays == {DaysForAge(a) : a \in TestAges}
              \cup {DaysForAge(a + 1) - 1 : a \in TestAges \ {-1}}

\* Rows that differ from BaseRow in the one field a bucket is cut from.
Pool ==
    UNION { {[BaseRow EXCEPT !.dob = -d, !.is_fraud = f] : d \in TestDays}
              \cup {[BaseRow EXCEPT !.amt = a, !.is_fraud = f] : a \in Around(AmountBins)}
              \cup {[BaseRow EXCEPT !.city_pop = c, !.is_fraud = f] : c \in Around(CityBins)}
            : f \in {0, 1} }

CompanionRows ==
    { BaseRow,
      [BaseRow EXCEPT !.is_fraud = 1, !.category = 2,
                      !.trans_date_trans_time = Timestamp(45, 23)],
      [BaseRow EXCEPT !.amt = 0, !.city_pop = 0, !.dob = 0, !.gender = 2] }

\* One pool row and up to MaxCompanions other rows.
BinFiles ==
    {File(<<r>> \o c) : r \in Pool, c \in SeqsUpTo(CompanionRows, MaxCompanions)}

RECURSIVE Flatten(_)
Flatten(ss) == IF ss = <<>> THEN <<>> ELSE Head(ss) \o Flatten(Tail(ss))

\* total rows like row of which the first fraud are fraud, 10 dollars apart
Block(row, total, fraud) ==
    [i \in 1..total |-> [row EXCEPT !.is_fraud = IF i <= fraud THEN 1 ELSE 0,
                                    !.amt = 10 * i,
                                    !.trans_date_trans_time = Timestamp(i, i % 24)]]

\* Cards 1..k; card c has fc[c] fraud rows and one legitimate row.
CardFiles ==
    UNION { {File(Flatten([c \in 1..k |->
                      Block([BaseRow EXCEPT !.cc_num = c], fc[c] + 1, fc[c])])) :
                fc \in [1..k -> {MinFraudCount - 1, MinFraudCount, MinFraudCount + 1}]}
            : k \in 0..MaxCards }

\* States 1..k; state s has StateFrauds(p, k, s) fraud rows and one legitimate row.
StateFrauds(p, k, s) ==
    CASE p = 1 -> 1
      [] p = 2 -> s % 3
      [] p = 3 -> (k - s) % 4

StateFiles ==
    {File(Flatten([s \in 1..k |->
              Block([BaseRow EXCEPT !.state = s],
                    StateFrauds(p, k, s) + 1, StateFrauds(p, k, s))])) :
        k \in 0..3 \cup (DefaultTopStates - 1)..MaxStates, p \in 1..3}

\* The same for every number of states up to MaxStates
AllStateFiles ==
    {File(Flatten([s \in 1..k |->
              Block([BaseRow EXCEPT !.state = s],
                    StateFrauds(p, k, s) + 1, StateFrauds(p, k, s))])) :
        k \in 0..MaxStates, p \in 1..3}

\* Merchant 1 of the 19-versus-20 scenario: total rows, 5 of them fraud, all in
\* category 1 unless split, which puts its last row in category 2.
TargetRows(total, split) ==
    [i \in 1..total |->
        [Block([BaseRow EXCEPT !.merchant = 1], total, 5)[i]
            EXCEPT !.category = IF split /\ i = total THEN 2 ELSE 1]]

\* k other merchants 2..k+1, each with total rows; the first fraud[o] rows of
\* the o-th of them are fraud.
OtherRows(k, total, fraud) ==
    [i \in 1..(k * total) |->
        [BaseRow EXCEPT !.merchant = 2 + ((i - 1) \div total),
                        !.cc_num = 2 + ((i - 1) \div total),
                        !.is_fraud = IF (i - 1) % total < fraud[1 + ((i - 1) \div total)]
                                     THEN 1 ELSE 0]]

OtherProfiles ==
    { <<MinMerchantTxns, MinMerchantFraud>>, <<MinMerchantTxns, 5>>,
      <<MinMerchantTxns, 6>>, <<MinMerchantTxns - 1, 6>>,
      <<MinMerchantTxns + 1, MinMerchantFraud - 1>> }

OtherCounts == {0, 1} \cup (TopMerchants - 1)..MaxOthers

\* The others all alike
MerchantFiles ==
    {File(TargetRows(total, split) \o OtherRows(k, prof[1], [o \in 1..k |-> prof[2]])) :
        total \in {MinMerchantTxns - 1, MinMerchantTxns}, split \in BOOLEAN,
        k \in OtherCounts, prof \in OtherProfiles}

\* The first TopMerchants - 1 others at a higher fraud rate than merchant 1,
\* the rest at a lower one
MixedFiles ==
    {File(TargetRows(total, FALSE)
            \o OtherRows(k, MinMerchantTxns,
                          [o \in 1..k |-> IF o < TopMerchants THEN 6 ELSE MinMerchantFraud])) :
        total \in {MinMerchantTxns - 1, MinMerchantTxns}, k \in OtherCounts}

\* Two rows, one required column missing from the file.
SchemaFiles ==
    {[columns |-> RawColumns \ {c},
      rows |-> <<BaseRow, [BaseRow EXCEPT !.is_fraud = 1]>>] : c \in RawColumns}

EmptyFile == File(<<>>)

Files == BinFiles \cup CardFiles \cup StateFiles \cup MerchantFiles \cup MixedFiles
           \cup SchemaFiles \cup {EmptyFile}

----------------------------------------------------------------------------
(* 7. Specifications *)

Start(files) ==
    /\ csv \in files
    /\ tie \in {"asc", "desc"}
    /\ conn = "none"
    /\ transactions = NoTable
    /\ pc = "load_data"
    /\ results = [r \in Reports |-> <<>>]
    /\ ran = {}
    /\ n_state = DefaultTopStates
    /\ calls = 0
    /\ error = "none"

Init == Start(Files)

\* main()
Next == main_load \/ main_report \/ main_visualize \/ main_close

Spec == Init /\ [][Next]_vars

\* The report functions called directly in any order, up to MaxCalls calls,
\* beside main, on a few small files.
ApiFiles ==
    SchemaFiles
      \cup { EmptyFile,
             File(<<BaseRow>>),
             File(Flatten([c \in 1..2 |->
                     Block([BaseRow EXCEPT !.cc_num = c, !.state = c, !.gender = c],
                           MinFraudCount + c, MinFraudCount + c - 2)])),
             File(Block([BaseRow EXCEPT !.amt = 0, !.city_pop = 0, !.dob = 0], 1, 0)
                    \o Block([BaseRow EXCEPT !.category = 2], 3, 2)),
             File(TargetRows(MinMerchantTxns, FALSE)
                    \o OtherRows(1, MinMerchantTxns, <<MinMerchantFraud>>)) }

InitApi == Start(ApiFiles)

NextApi == api_load \/ api_report \/ Next

SpecApi == InitApi /\ [][NextApi]_vars

\* fraud_by_state called directly with every limit, on the files of states
InitTopN == Start(AllStateFiles \cup SchemaFiles)

NextTopN == api_load \/ api_fraud_by_state

SpecTopN == InitTopN /\ [][NextTopN]_vars

----------------------------------------------------------------------------
(* 8. Properties *)

\* The rows of the input file, counted without the queries
FileIdx == DOMAIN csv.rows
Returned(name) == {results[name][i] : i \in DOMAIN results[name]}

RECURSIVE TotalTxns(_)
\* The sum of total_txns over the rows of a result
TotalTxns(res) == IF res = <<>> THEN 0 ELSE Head(res).total_txns + TotalTxns(Tail(res))

CardFrauds(c) ==
    Cardinality({j \in FileIdx : csv.rows[j].cc_num = c /\ csv.rows[j].is_fraud = 1})
GroupIdx(m, c) ==
    {j \in FileIdx : csv.rows[j].merchant = m /\ csv.rows[j].category = c}
GroupTxns(m, c) == Cardinality(GroupIdx(m, c))
GroupFrauds(m, c) == Cardinality({j \in GroupIdx(m, c) : csv.rows[j].is_fraud = 1})

(* C1: every row returned by repeat_fraud_cards has fraud_count >= 3, the   *)
(* number of fraud rows of that card in the input, and every row returned  *)
(* by high_risk_merchants has total_txns >= 20 and fraud_txns >= 3, the    *)
(* counts of that merchant and category in the input.                      *)
C1_Thresholds ==
    /\ \A x \in Returned("repeat_fraud_cards") :
          x.fraud_count >= 3 /\ x.fraud_count = CardFrauds(x.cc_num)
    /\ \A x \in Returned("high_risk_merchants") :
          /\ x.total_txns >= 20 /\ x.fraud_txns >= 3
          /\ x.total_txns = GroupTxns(x.merchant, x.category)
          /\ x.fraud_txns = GroupFrauds(x.merchant, x.category)

\* Both reports have returned rows, while a card with fewer than 3 fraud
\* rows and a merchant below a threshold are in the input.
C1_Witness ==
    /\ Returned("repeat_fraud_cards") /= {}
    /\ Returned("high_risk_merchants") /= {}
    /\ \E j \in FileIdx :
          GroupTxns(csv.rows[j].merchant, csv.rows[j].category) >= 20
          /\ GroupFrauds(csv.rows[j].merchant, csv.rows[j].category) < 3

InteriorEdges(bins) == 2..(Len(bins) - 1)

(* C2: a value exactly on an interior bin edge of age_group, amount_bucket *)
(* or city_size is assigned to the bin whose lower bound is that edge; an  *)
(* age of exactly 25 gets age_group "25-34".                               *)
C2_EdgeInUpperBin ==
    \A i \in DOMAIN transactions.rows :
        LET r == transactions.rows[i]
        IN  /\ r.age = 25 => r.age_group = "25-34"
            /\ \A e \in InteriorEdges(AgeBins) :
                  r.age = AgeBins[e] => r.age_group = AgeLabels[e]
            /\ \A e \in InteriorEdges(AmountBins) :
                  r.amt = AmountBins[e] => r.amount_bucket = AmountLabels[e]
            /\ \A e \in InteriorEdges(CityBins) :
                  r.city_pop = CityBins[e] => r.city_size = CityLabels[e]

(* C3: every transaction amount amt >= 0, amt = 0 included, is assigned    *)
(* one of the four amount buckets.                                         *)
C3_AmountBucketTotal ==
    \A i \in DOMAIN transactions.rows :
        transactions.rows[i].amt >= 0
            => transactions.rows[i].amount_bucket
                  \in {"0-100", "100-500", "500-1000", "1000+"}

(* C4: a row whose age is below 18, or 120 or more, has a null age_group   *)
(* and is counted in no row of fraud_by_age_group; a row with              *)
(* 18 <= age < 120 has one of the six labels.                              *)
C4_AgeGroupRange ==
    /\ \A i \in DOMAIN transactions.rows :
          LET r == transactions.rows[i]
          IN  /\ (r.age < 18 \/ r.age >= 120) => r.age_group = NULL
              /\ (18 <= r.age /\ r.age < 120)
                    => r.age_group \in {"18-24", "25-34", "35-44", "45-54", "55-64", "65+"}
    /\ ("fraud_by_age_group" \in ran /\ conn = "open")
          => TotalTxns(results["fraud_by_age_group"])
                = Cardinality({i \in DOMAIN transactions.rows :
                                  /\ 18 <= transactions.rows[i].age
                                  /\ transactions.rows[i].age < 120})

(* C5: when load_data has returned for a file with no rows, fraud_overview *)
(* completes without error and reports total_txns = 0, fraud_count = 0 and *)
(* fraud_rate_pct = 0, not null, and every grouped report that has run     *)
(* returned no rows and did not fail.                                      *)
C5_EmptyDataset ==
    (csv.rows = <<>> /\ RawColumns \subseteq csv.columns /\ conn /= "none")
        => /\ error = "none"
           /\ results["fraud_overview"] /= <<>>
                 => /\ results["fraud_overview"][1].total_txns = 0
                    /\ results["fraud_overview"][1].fraud_count = Val(0)
                    /\ results["fraud_overview"][1].fraud_rate_pct = Val(0)
           /\ \A r \in ran \ {"fraud_overview"} : results[r] = <<>>

(* C6: when a required column is missing from the input, the run aborts    *)
(* inside load_data: no connection is opened, no report is executed, and   *)
(* no run fails in a report on a missing column.                           *)
C6_MissingColumnAtIngest ==
    ~(RawColumns \subseteq csv.columns)
        => /\ conn = "none"
           /\ ran = {}
           /\ error \in {"none", "load_data"}

BucketColumn(name) ==
    CASE name = "fraud_by_amount_bucket" -> "amount_bucket"
      [] name = "fraud_by_age_group"     -> "age_group"
      [] name = "fraud_by_city_size"     -> "city_size"

(* C7: a row whose amount, age or city population is outside every bin is  *)
(* kept by load_data, appears under no null key in fraud_by_amount_bucket, *)
(* fraud_by_age_group or fraud_by_city_size, and is counted in total_txns  *)
(* of fraud_overview, fraud_by_category, fraud_by_hour and                 *)
(* fraud_by_day_of_week.                                                   *)
C7_OutOfBinRows ==
    /\ conn = "open" => Len(transactions.rows) = Len(csv.rows)
    /\ \A name \in {"fraud_by_amount_bucket", "fraud_by_age_group", "fraud_by_city_size"} :
          \A x \in Returned(name) : x[BucketColumn(name)] /= NULL
    /\ \A name \in {"fraud_overview", "fraud_by_category", "fraud_by_hour",
                    "fraud_by_day_of_week"} \cap ran :
          TotalTxns(results[name]) = Len(csv.rows)

Merchants == {csv.rows[j].merchant : j \in FileIdx}
MerchantTxns(m) == Cardinality({j \in FileIdx : csv.rows[j].merchant = m})
MerchantFrauds(m) ==
    Cardinality({j \in FileIdx : csv.rows[j].merchant = m /\ csv.rows[j].is_fraud = 1})
Groups == {<<csv.rows[j].merchant, csv.rows[j].category>> : j \in FileIdx}
GroupRate(g) == RoundDiv(10000 * GroupFrauds(g[1], g[2]), GroupTxns(g[1], g[2]))
GroupReturned(g) ==
    \E x \in Returned("high_risk_merchants") : x.merchant = g[1] /\ x.category = g[2]
\* The other groups that pass both thresholds at a rate not below that of g
Rivals(g) ==
    {h \in Groups \ {g} : /\ GroupTxns(h[1], h[2]) >= 20
                          /\ GroupFrauds(h[1], h[2]) >= 3
                          /\ GroupRate(h) >= GroupRate(g)}

(* C8 as stated: a merchant with 19 transactions, 5 of them fraud, is      *)
(* absent from high_risk_merchants, and one with 20 transactions, 5 of     *)
(* them fraud, is present, whatever else the dataset contains.             *)
C8_AsStated ==
    "high_risk_merchants" \in ran
        => \A m \in Merchants :
              /\ (MerchantTxns(m) = 19 /\ MerchantFrauds(m) = 5)
                    => ~\E x \in Returned("high_risk_merchants") : x.merchant = m
              /\ (MerchantTxns(m) = 20 /\ MerchantFrauds(m) = 5)
                    => \E x \in Returned("high_risk_merchants") : x.merchant = m

(* C8 amended: a merchant-and-category group with 19 transactions, 5 of    *)
(* them fraud, is absent from high_risk_merchants; a group with 20         *)
(* transactions, 5 of them fraud, is present whenever fewer than 20 other  *)
(* groups pass both thresholds with a fraud_rate_pct not below its own.    *)
C8_Amended ==
    "high_risk_merchants" \in ran
        => \A g \in Groups :
              /\ (GroupTxns(g[1], g[2]) = 19 /\ GroupFrauds(g[1], g[2]) = 5)
                    => ~GroupReturned(g)
              /\ (GroupTxns(g[1], g[2]) = 20 /\ GroupFrauds(g[1], g[2]) = 5
                    /\ Cardinality(Rivals(g)) < 20)
                    => GroupReturned(g)

\* The group of 20 with 5 fraud is returned although more than 20 groups
\* pass the thresholds: the LIMIT has cut others.
C8_Witness ==
    /\ "high_risk_merchants" \in ran
    /\ \E g \in Groups :
          /\ GroupTxns(g[1], g[2]) = 20 /\ GroupFrauds(g[1], g[2]) = 5
          /\ GroupReturned(g)
          /\ Cardinality(Rivals(g)) = 19
          /\ Cardinality({h \in Groups : GroupTxns(h[1], h[2]) >= 20
                                          /\ GroupFrauds(h[1], h[2]) >= 3}) > 20

LimitOf(name) == IF name = "fraud_by_state" THEN n_state ELSE DefaultTopStates

(* C9: once load_data has returned and until conn.close, the transactions  *)
(* table is the one load_data wrote, and every report that has returned,   *)
(* in whatever order and however often, returned what it returns on that   *)
(* table.                                                                  *)
C9_ReadOnlyReports ==
    conn = "open"
        => /\ transactions = to_sql(csv)
           /\ \A name \in ran : results[name] = run_query(name, to_sql(csv), LimitOf(name))

\* Two direct calls have been made on a table with rows, out of main's order.
C9_Witness ==
    /\ calls = 2
    /\ conn = "open"
    /\ Len(transactions.rows) > 1
    /\ "high_risk_merchants" \in ran
    /\ "fraud_overview" \notin ran
    /\ \E j \in FileIdx : csv.rows[j].is_fraud = 1

States == {csv.rows[j].state : j \in FileIdx}
StateFraudCount(s) ==
    Cardinality({j \in FileIdx : csv.rows[j].state = s /\ csv.rows[j].is_fraud = 1})

(* C10: fraud_by_state with limit N >= 0 returns min(N, number of distinct *)
(* states) rows, one per state, in non-increasing order of fraud_txns, and *)
(* no state left out has more fraud transactions than a state returned.    *)
C10_TopStates ==
    "fraud_by_state" \in ran
        => LET res == results["fraud_by_state"]
           IN  /\ Len(res) = (IF n_state <= Cardinality(States) THEN n_state
                              ELSE Cardinality(States))
               /\ \A i \in DOMAIN res :
                     /\ res[i].state \in States
                     /\ res[i].fraud_txns = StateFraudCount(res[i].state)
               /\ \A i, j \in DOMAIN res :
                     i < j => /\ res[i].state /= res[j].state
                              /\ res[i].fraud_txns >= res[j].fraud_txns
               /\ \A s \in States \ {res[i].state : i \in DOMAIN res} :
                     \A i \in DOMAIN res : StateFraudCount(s) <= res[i].fraud_txns

\* The default limit of 15 has cut a result of more than 15 states with
\* differing fraud counts.
C10_Witness ==
    /\ "fraud_by_state" \in ran
    /\ n_state = 15
    /\ Len(results["fraud_by_state"]) = 15
    /\ Cardinality(States) > 15
    /\ \E s, t \in States : StateFraudCount(s) /= StateFraudCount(t)

=============================================================================
